---- MODULE Spec2Model ----
(***************************************************************************)
(* Model of stdr_robot/src/sensors/rfid_reader.cpp: the RFID reader sensor *)
(* of the STDR simulator.                                                  *)
(*                                                                         *)
(* Angles are exact multiples of pi/PI (PI == 12, i.e. steps of 15 deg),   *)
(* lengths are integers; float rounding is not modelled.  Radian literals  *)
(* of the documentation map to the nearest grid angle: 0.5 rad -> 2,       *)
(* 1.0 rad -> 4, 3.0 rad -> 11, 3.14 rad -> 12, pi/4 -> 3.                 *)
(***************************************************************************)
EXTENDS Integers, Sequences, FiniteSets, TLC

VARIABLES
  _gotTransform,     \* Sensor::_gotTransform, the readiness flag
  _sensorTransform,  \* cached sensor pose [x, y, th]
  rfid_tags_,        \* cached stdr_msgs::RfidTagVector (sequence of tags)
  _map,              \* occupancy grid info [width, height]
  _description,      \* stdr_msgs::RfidSensorMsg [maxRange, angleSpan, frame_id]
  published,         \* last message handed to _publisher (queue size 1)
  nReports,          \* number of messages handed to _publisher
  last,              \* name of the callback that ran last
  tf_result,         \* outcome of the last tf lookup (a pose or TfException)
  replaced,          \* tags dropped by the last receiveRfids (history)
  h_pose,            \* pose returned by the last lookup that succeeded (history)
  h_tags,            \* vector delivered by the last receiveRfids (history)
  h_cycles,          \* cycles invoked with a transform and a non-empty map (history)
  in_target, in_min, in_max,  \* arguments of a stand-alone angCheck call
  ret,               \* its return value
  pcAng              \* "call" before the stand-alone call, "done" after

vars == <<_gotTransform, _sensorTransform, rfid_tags_, _map, _description,
          published, nReports, last, tf_result, replaced,
          h_pose, h_tags, h_cycles,
          in_target, in_min, in_max, ret, pcAng>>

sensorVars == <<_gotTransform, _sensorTransform, rfid_tags_, _map,
                _description, published, nReports, last, tf_result, replaced,
                h_pose, h_tags, h_cycles>>

angVars == <<in_target, in_min, in_max, ret, pcAng>>

-----------------------------------------------------------------------------
(* Constants and bounds *)

\* pi, in angle units (the PI macro of the sources)
PI == 12

\* most reports published in one behaviour
MaxReports == 2

\* longest tag vector delivered on stdr_server/rfid_list
MaxTags == 3

\* stand-alone angCheck targets range over -MaxTurns .. MaxTurns full turns
MaxTurns == 2

TwoPI == 2 * PI

-----------------------------------------------------------------------------
(* Angular interval test, rfid_reader.cpp:33-64 *)

\* float -> int conversion of n / d (d > 0): truncation toward zero
ToInt(n, d) == IF n >= 0 THEN n \div d ELSE -((-n) \div d)

\* variant: the turn count computed without the + 2 * PI offset
Normalize_noOffset(a) == a + (1 - ToInt(a, 2 * PI)) * PI * 2

\* c = (a + 2 * PI) / (2 * PI);  a + (1 - c) * PI * 2
Normalize(a) == a + (1 - ToInt(a + 2 * PI, 2 * PI)) * PI * 2

\* variant: the differing-sign branch without the shifted-target test
angCheck_noShiftedTarget(target_, min_, max_) ==
  LET target == Normalize(target_)
      min    == Normalize(min_)
      max    == Normalize(max_)
  IN  IF min_ * max_ > 0
        THEN target > min /\ target < max
        ELSE target > min /\ target < max + 2 * PI

angCheck(target_, min_, max_) ==
  LET target == Normalize(target_)
      min    == Normalize(min_)
      max    == Normalize(max_)
  IN  IF min_ * max_ > 0
        THEN target > min /\ target < max
        ELSE LET max2    == max + 2 * PI
                 target2 == target + 2 * PI
             IN  \/ (target > min /\ target < max2)
                 \/ (target2 > min /\ target2 < max2)

-----------------------------------------------------------------------------
(* Inputs *)

TagA == [id |-> "A", x |-> 5,  y |-> 0]
TagB == [id |-> "B", x |-> 5,  y |-> 5]
TagC == [id |-> "C", x |-> 20, y |-> 0]

TagPool == {TagA, TagB, TagC}

RECURSIVE SeqsUpTo(_, _)
SeqsUpTo(S, n) ==
  IF n = 0 THEN {<<>>}
  ELSE LET shorter == SeqsUpTo(S, n - 1)
       IN  shorter \cup {Append(s, e) : s \in shorter, e \in S}

Range(s) == {s[i] : i \in 1..Len(s)}

NoDup(s) == \A i, j \in 1..Len(s) : i # j => s[i] # s[j]

\* a vector that lists one tag twice (the reader does not rule it out)
DuplicateVectors == {<<TagA, TagA>>}

\* tag vectors the server sends: the registry holds each tag once
TagVectors ==
  {s \in SeqsUpTo(TagPool, MaxTags) : NoDup(s)} \cup DuplicateVectors

\* yaw values returned by tf::getYaw, in [-pi, pi]
Headings == {-PI, -6, 0, 2, PI}

Origins == {<<0, 0>>, <<10, 0>>}

Poses == {[x |-> o[1], y |-> o[2], th |-> h] : o \in Origins, h \in Headings}

\* placeholder carried by a lookup that threw
NoPose == [x |-> 0, y |-> 0, th |-> 0]

\* outcomes of waitForTransform + lookupTransform
TfException == [threw |-> TRUE, transform |-> NoPose]

TfResults == {[threw |-> FALSE, transform |-> p] : p \in Poses} \cup {TfException}

MaxRanges == {5, 10}

\* spans are even, so angleSpan / 2.0 is exact in angle units
AngleSpans == {0, 4, 12}

MapExtents == {0, 2}

FrameId == "rfid_reader_0"

Descriptions ==
  {[maxRange |-> r, angleSpan |-> s, frame_id |-> FrameId] :
     r \in MaxRanges, s \in AngleSpans}

Maps == {[width |-> w, height |-> h] : w \in MapExtents, h \in MapExtents}

NoMessage == [frame_id |-> "", rfid_tags |-> <<>>]

-----------------------------------------------------------------------------
(* Detection cycle, rfid_reader.cpp:113-163 *)

\* atan2(y, x) in angle units; exact on the axes and the diagonals, which
\* are the only offsets between Origins and TagPool
atan2(y, x) ==
  IF y = 0 THEN (IF x >= 0 THEN 0 ELSE PI)
  ELSE IF x = 0 THEN (IF y > 0 THEN PI \div 2 ELSE -(PI \div 2))
  ELSE IF x = y THEN (IF x > 0 THEN PI \div 4 ELSE -((3 * PI) \div 4))
  ELSE IF x = -y THEN (IF x > 0 THEN -(PI \div 4) ELSE (3 * PI) \div 4)
  ELSE "inexact"

\* variant: the range gate with >= in place of >
OutOfRange_inclusive(tag) ==
  LET sensor_x  == _sensorTransform.x
      sensor_y  == _sensorTransform.y
      max_range == _description.maxRange
      dist2     == (sensor_x - tag.x) * (sensor_x - tag.x)
                   + (sensor_y - tag.y) * (sensor_y - tag.y)
  IN  dist2 >= max_range * max_range

\* dist > max_range with dist = sqrt(dx^2 + dy^2), max_range >= 0
OutOfRange(tag) ==
  LET sensor_x  == _sensorTransform.x
      sensor_y  == _sensorTransform.y
      max_range == _description.maxRange
      dist2     == (sensor_x - tag.x) * (sensor_x - tag.x)
                   + (sensor_y - tag.y) * (sensor_y - tag.y)
  IN  dist2 > max_range * max_range

\* variant: the angular gate left out
OutOfCone_skipped(tag) == FALSE

\* !angCheck(ang, min_angle, max_angle)
OutOfCone(tag) ==
  LET sensor_x  == _sensorTransform.x
      sensor_y  == _sensorTransform.y
      sensor_th == _sensorTransform.th
      min_angle == sensor_th - _description.angleSpan \div 2
      max_angle == sensor_th + _description.angleSpan \div 2
      ang       == atan2(tag.y - sensor_y, tag.x - sensor_x)
  IN  ~angCheck(ang, min_angle, max_angle)

\* variant: a detected tag is put at the front of the list
RECURSIVE MeasureLoop_front(_, _)
MeasureLoop_front(i, measured) ==
  IF i > Len(rfid_tags_) THEN measured
  ELSE IF OutOfRange(rfid_tags_[i]) THEN MeasureLoop_front(i + 1, measured)
  ELSE IF OutOfCone(rfid_tags_[i]) THEN MeasureLoop_front(i + 1, measured)
  ELSE MeasureLoop_front(i + 1, <<rfid_tags_[i]>> \o measured)

\* the for loop: measuredTagsMsg.rfid_tags after visiting tags i .. size
RECURSIVE MeasureLoop(_, _)
MeasureLoop(i, measured) ==
  IF i > Len(rfid_tags_) THEN measured
  ELSE IF OutOfRange(rfid_tags_[i]) THEN MeasureLoop(i + 1, measured)
  ELSE IF OutOfCone(rfid_tags_[i]) THEN MeasureLoop(i + 1, measured)
  ELSE MeasureLoop(i + 1, Append(measured, rfid_tags_[i]))

\* variant: the readiness gate left out
NotReady_never == FALSE

\* if (!_gotTransform) return;
NotReady == ~_gotTransform

\* variant: the map test with && in place of ||
OutsideLimits_both == _map.height = 0 /\ _map.width = 0

\* if (_map.info.height == 0 || _map.info.width == 0) return;
OutsideLimits == _map.height = 0 \/ _map.width = 0

\* variant: the cached vector is emptied once it has been reported
updateSensorCallback_consumes ==
  /\ nReports < MaxReports
  /\ last' = "updateSensorCallback"
  /\ IF NotReady
        THEN UNCHANGED <<published, nReports, rfid_tags_>>
        ELSE IF OutsideLimits
          THEN UNCHANGED <<published, nReports, rfid_tags_>>
          ELSE /\ published' = [frame_id  |-> _description.frame_id,
                                rfid_tags |-> MeasureLoop(1, <<>>)]
               /\ nReports' = nReports + 1
               /\ rfid_tags_' = <<>>
  /\ h_cycles' = IF _gotTransform /\ _map.height # 0 /\ _map.width # 0
                    THEN h_cycles + 1 ELSE h_cycles
  /\ UNCHANGED <<_gotTransform, _sensorTransform, _map,
                 _description, tf_result, replaced, h_pose, h_tags>>
  /\ UNCHANGED angVars

\* variant: nothing is published when no tag was detected
updateSensorCallback_skipEmpty ==
  /\ nReports < MaxReports
  /\ last' = "updateSensorCallback"
  /\ IF NotReady
        THEN UNCHANGED <<published, nReports>>
        ELSE IF OutsideLimits \/ MeasureLoop(1, <<>>) = <<>>
          THEN UNCHANGED <<published, nReports>>
          ELSE /\ published' = [frame_id  |-> _description.frame_id,
                                rfid_tags |-> MeasureLoop(1, <<>>)]
               /\ nReports' = nReports + 1
  /\ h_cycles' = IF _gotTransform /\ _map.height # 0 /\ _map.width # 0
                    THEN h_cycles + 1 ELSE h_cycles
  /\ UNCHANGED <<_gotTransform, _sensorTransform, rfid_tags_, _map,
                 _description, tf_result, replaced, h_pose, h_tags>>
  /\ UNCHANGED angVars

updateSensorCallback ==
  /\ nReports < MaxReports
  /\ last' = "updateSensorCallback"
  /\ IF NotReady
        THEN UNCHANGED <<published, nReports>>
        ELSE IF OutsideLimits
          THEN UNCHANGED <<published, nReports>>
          ELSE /\ published' = [frame_id  |-> _description.frame_id,
                                rfid_tags |-> MeasureLoop(1, <<>>)]
               /\ nReports' = nReports + 1
  /\ h_cycles' = IF _gotTransform /\ _map.height # 0 /\ _map.width # 0
                    THEN h_cycles + 1 ELSE h_cycles
  /\ UNCHANGED <<_gotTransform, _sensorTransform, rfid_tags_, _map,
                 _description, tf_result, replaced, h_pose, h_tags>>
  /\ UNCHANGED angVars

-----------------------------------------------------------------------------
(* Pose refresh, rfid_reader.cpp:187-209 *)

\* variant: the flag raised before the lookups, so also when they throw
updateTransform_flagFirst(res) ==
  /\ last' = "updateTransform"
  /\ tf_result' = res
  /\ _gotTransform' = TRUE
  /\ IF res.threw
        THEN UNCHANGED _sensorTransform
        ELSE _sensorTransform' = res.transform
  /\ h_pose' = IF res.threw THEN h_pose ELSE res.transform
  /\ UNCHANGED <<rfid_tags_, _map, _description, published, nReports, replaced,
                 h_tags, h_cycles>>
  /\ UNCHANGED angVars

\* variant: a successful lookup stores the origin but keeps the old rotation
updateTransform_partial(res) ==
  /\ last' = "updateTransform"
  /\ tf_result' = res
  /\ IF res.threw
        THEN UNCHANGED <<_sensorTransform, _gotTransform>>
        ELSE /\ _sensorTransform' = [res.transform EXCEPT !.th = _sensorTransform.th]
             /\ _gotTransform' = TRUE
  /\ h_pose' = IF res.threw THEN h_pose ELSE res.transform
  /\ UNCHANGED <<rfid_tags_, _map, _description, published, nReports, replaced,
                 h_tags, h_cycles>>
  /\ UNCHANGED angVars

\* variant: a successful lookup stores the pose but never raises the flag
updateTransform_noFlag(res) ==
  /\ last' = "updateTransform"
  /\ tf_result' = res
  /\ IF res.threw
        THEN UNCHANGED _sensorTransform
        ELSE _sensorTransform' = res.transform
  /\ UNCHANGED _gotTransform
  /\ h_pose' = IF res.threw THEN h_pose ELSE res.transform
  /\ UNCHANGED <<rfid_tags_, _map, _description, published, nReports, replaced,
                 h_tags, h_cycles>>
  /\ UNCHANGED angVars

\* variant: a lookup that throws lowers the flag again
updateTransform_resetOnFail(res) ==
  /\ last' = "updateTransform"
  /\ tf_result' = res
  /\ IF res.threw
        THEN /\ UNCHANGED _sensorTransform
             /\ _gotTransform' = FALSE
        ELSE /\ _sensorTransform' = res.transform
             /\ _gotTransform' = TRUE
  /\ h_pose' = IF res.threw THEN h_pose ELSE res.transform
  /\ UNCHANGED <<rfid_tags_, _map, _description, published, nReports, replaced,
                 h_tags, h_cycles>>
  /\ UNCHANGED angVars

updateTransform(res) ==
  /\ last' = "updateTransform"
  /\ tf_result' = res
  /\ IF res.threw
        THEN UNCHANGED <<_sensorTransform, _gotTransform>>
        ELSE /\ _sensorTransform' = res.transform
             /\ _gotTransform' = TRUE
  /\ h_pose' = IF res.threw THEN h_pose ELSE res.transform
  /\ UNCHANGED <<rfid_tags_, _map, _description, published, nReports, replaced,
                 h_tags, h_cycles>>
  /\ UNCHANGED angVars

-----------------------------------------------------------------------------
(* Tag registry update, rfid_reader.cpp:214-217 *)

\* variant: the new vector merged into the cached one
receiveRfids_merge(msg) ==
  /\ last' = "receiveRfids"
  /\ rfid_tags_' = msg \o SelectSeq(rfid_tags_, LAMBDA t : t \notin Range(msg))
  /\ replaced' = Range(rfid_tags_) \ Range(msg)
  /\ h_tags' = msg
  /\ UNCHANGED <<_gotTransform, _sensorTransform, _map, _description,
                 published, nReports, tf_result, h_pose, h_cycles>>
  /\ UNCHANGED angVars

receiveRfids(msg) ==
  /\ last' = "receiveRfids"
  /\ rfid_tags_' = msg
  /\ replaced' = Range(rfid_tags_) \ Range(msg)
  /\ h_tags' = msg
  /\ UNCHANGED <<_gotTransform, _sensorTransform, _map, _description,
                 published, nReports, tf_result, h_pose, h_cycles>>
  /\ UNCHANGED angVars

-----------------------------------------------------------------------------
(* Construction, rfid_reader.cpp:74-98 *)

\* Sensor::Sensor(map, name) starts with no transform
SensorBaseGotTransform == FALSE

Init ==
  /\ _gotTransform = SensorBaseGotTransform
  /\ _sensorTransform \in Poses      \* default-constructed, never assigned
  /\ rfid_tags_ = <<>>
  /\ _map \in Maps
  /\ _description \in Descriptions
  /\ published = NoMessage
  /\ nReports = 0
  /\ last = "RfidReader"
  /\ tf_result = TfException
  /\ replaced = {}
  /\ h_pose = NoPose /\ h_tags = <<>> /\ h_cycles = 0
  /\ in_target = 0 /\ in_min = 0 /\ in_max = 0
  /\ ret = FALSE
  /\ pcAng = "done"

Next ==
  \/ updateSensorCallback
  \/ \E res \in TfResults : updateTransform(res)
  \/ \E msg \in TagVectors : receiveRfids(msg)

Spec == Init /\ [][Next]_vars

\* both timers keep firing: _timer drives updateSensorCallback, _tfTimer
\* drives updateTransform
Fairness ==
  /\ WF_vars(updateSensorCallback)
  /\ WF_vars(\E res \in TfResults : updateTransform(res))

SpecLive == Init /\ [][Next]_vars /\ Fairness

-----------------------------------------------------------------------------
(* Stand-alone calls of angCheck *)

AngTargets == (-(MaxTurns * TwoPI)) .. (MaxTurns * TwoPI)

AngBounds == (-TwoPI) .. TwoPI

callAngCheck ==
  /\ pcAng = "call"
  /\ ret' = angCheck(in_target, in_min, in_max)
  /\ pcAng' = "done"
  /\ UNCHANGED <<in_target, in_min, in_max>>
  /\ UNCHANGED sensorVars

InitAng ==
  /\ _gotTransform = SensorBaseGotTransform
  /\ _sensorTransform = NoPose
  /\ rfid_tags_ = <<>>
  /\ _map = [width |-> 0, height |-> 0]
  /\ _description = [maxRange |-> 5, angleSpan |-> 0, frame_id |-> FrameId]
  /\ published = NoMessage
  /\ nReports = 0
  /\ last = "RfidReader"
  /\ tf_result = TfException
  /\ replaced = {}
  /\ h_pose = NoPose /\ h_tags = <<>> /\ h_cycles = 0
  /\ in_target \in AngTargets
  /\ in_min \in AngBounds
  /\ in_max \in AngBounds
  /\ ret = FALSE
  /\ pcAng = "call"

NextAng == callAngCheck

SpecAng == InitAng /\ [][NextAng]_vars

-----------------------------------------------------------------------------
(* Vocabulary of the properties *)

\* the last callback was a Detection Cycle that passed both gates
CyclePublished ==
  /\ last = "updateSensorCallback"
  /\ _gotTransform
  /\ _map.height # 0 /\ _map.width # 0

SqDist(tag) ==
  (tag.x - _sensorTransform.x) * (tag.x - _sensorTransform.x)
  + (tag.y - _sensorTransform.y) * (tag.y - _sensorTransform.y)

Bearing(tag) == atan2(tag.y - _sensorTransform.y, tag.x - _sensorTransform.x)

ConeMin == _sensorTransform.th - _description.angleSpan \div 2

ConeMax == _sensorTransform.th + _description.angleSpan \div 2

SqRange == _description.maxRange * _description.maxRange

PassesAngularGate(tag) == angCheck(Bearing(tag), ConeMin, ConeMax)

PassesBothGates(tag) == SqDist(tag) <= SqRange /\ PassesAngularGate(tag)

Reported == Range(published.rfid_tags)

\* t, modulo a full turn, lies strictly inside the counter-clockwise arc
\* from lo to hi
InArc(t, lo, hi) ==
  LET len == (hi - lo) % TwoPI
      off == (t - lo) % TwoPI
  IN  0 < off /\ off < len

\* lo = c - s/2, hi = c + s/2 for a centre c in [-pi, pi] and 0 < s < 2 pi
IsCycleCone(lo, hi) ==
  /\ 0 < hi - lo /\ hi - lo < TwoPI
  /\ -TwoPI <= lo + hi /\ lo + hi <= TwoPI

\* sensor at the origin, heading 0, span 1.0 rad, max range 10, tags A, B, C
EndToEndScenario ==
  /\ _sensorTransform = [x |-> 0, y |-> 0, th |-> 0]
  /\ _description.angleSpan = 4
  /\ _description.maxRange = 10
  /\ Range(rfid_tags_) = {TagA, TagB, TagC}

TypeOK ==
  /\ _gotTransform \in BOOLEAN
  /\ _sensorTransform \in Poses \cup {NoPose}
  /\ rfid_tags_ \in TagVectors
  /\ published.rfid_tags \in TagVectors
  /\ nReports \in 0..MaxReports
  /\ replaced \subseteq TagPool
  /\ ret \in BOOLEAN

-----------------------------------------------------------------------------
(* Properties *)

\* C1: a report emitted by a Detection Cycle lists exactly the cached tags
\* that pass the range gate and the Angular Interval Test of the cone
\* (heading - span/2, heading + span/2); in the end-to-end scenario the
\* report holds tag A only.
C1_ReportIsGatedTags ==
  CyclePublished =>
    /\ Reported = {t \in Range(rfid_tags_) : PassesBothGates(t)}
    /\ EndToEndScenario => Reported = {TagA}

C1_Witness ==
  /\ CyclePublished
  /\ EndToEndScenario
  /\ published.rfid_tags = <<TagA>>

\* C2: for every cone min = c - s/2, max = c + s/2 with c in [-pi, pi] and
\* 0 < s < 2 pi, angCheck returns true exactly when the target, modulo a
\* full turn, lies strictly inside the counter-clockwise arc from min to max.
C2_AngCheckIsArcMembership ==
  (pcAng = "done" /\ IsCycleCone(in_min, in_max)) =>
    (ret <=> InArc(in_target, in_min, in_max))

\* C3: while the readiness flag is false nothing has been published.
C3_ReadinessGate ==
  ~_gotTransform => (nReports = 0 /\ published = NoMessage)

C3_Witness ==
  /\ ~_gotTransform
  /\ last = "updateSensorCallback"
  /\ rfid_tags_ # <<>>
  /\ _map.height # 0 /\ _map.width # 0
  /\ nReports = 0

\* C4: a report emitted after a registry update holds only tags of that
\* update, and none of the tags the update dropped from the previous set.
C4_FullSetReplacement ==
  CyclePublished =>
    /\ Reported \subseteq Range(rfid_tags_)
    /\ Reported \cap replaced = {}

C4_Witness ==
  /\ CyclePublished
  /\ published.rfid_tags # <<>>
  /\ \E t \in replaced : PassesBothGates(t)

\* C5: a pose refresh that succeeds stores the looked-up pose and raises
\* the readiness flag; one that throws leaves pose and flag as they were;
\* neither touches the tag set.
C5_PoseRefreshOutcome ==
  [][ last' = "updateTransform" =>
        /\ rfid_tags_' = rfid_tags_
        /\ IF tf_result'.threw
              THEN _sensorTransform' = _sensorTransform
                   /\ _gotTransform' = _gotTransform
              ELSE _sensorTransform' = tf_result'.transform
                   /\ _gotTransform' = TRUE ]_vars

C5_Witness ==
  /\ last = "updateTransform"
  /\ tf_result.threw
  /\ _gotTransform
  /\ rfid_tags_ # <<>>

\* C6: a cached tag at distance exactly max range is reported whenever it
\* passes the angular gate; a tag farther than max range is never reported.
C6_RangeGateBoundary ==
  CyclePublished =>
    \A t \in Range(rfid_tags_) :
      /\ (SqDist(t) = SqRange /\ PassesAngularGate(t)) => t \in Reported
      /\ SqDist(t) > SqRange => t \notin Reported

C6_Witness ==
  /\ CyclePublished
  /\ \E t \in Reported : SqDist(t) = SqRange
  /\ \E t \in Range(rfid_tags_) : SqDist(t) > SqRange /\ PassesAngularGate(t)

\* bounds already reduced, min positive and max negative
IsStraddlingPair(lo, hi) == 0 < lo /\ lo <= PI /\ -PI <= hi /\ hi < 0

C8_ExclusiveBounds ==
  (pcAng = "done" /\ IsCycleCone(in_min, in_max)) =>
    /\ ((in_target - in_min) % TwoPI = 0 \/ (in_target - in_max) % TwoPI = 0)
         => ~ret
    /\ (in_min = -2 /\ in_max = 2 /\ in_target = 0) => ret

\* C9: the result of angCheck does not change when whole turns are added
\* to the target, to min or to max.
C9_Periodicity ==
  pcAng = "done" =>
    \A k \in (-MaxTurns) .. MaxTurns :
      /\ angCheck(in_target + k * TwoPI, in_min, in_max) = ret
      /\ angCheck(in_target, in_min + k * TwoPI, in_max) = ret
      /\ angCheck(in_target, in_min, in_max + k * TwoPI) = ret

AngArgs == {in_target, in_min, in_max}

C11_EnvironmentBoundsGate ==
  [][ (_map.width = 0 \/ _map.height = 0) =>
        /\ nReports' = nReports
        /\ published' = published
        /\ last' = "updateSensorCallback" =>
              UNCHANGED <<_gotTransform, _sensorTransform, rfid_tags_,
                          _description, _map>> ]_vars

C11_Witness ==
  /\ last = "updateSensorCallback"
  /\ _gotTransform
  /\ _map.width = 0 /\ _map.height # 0
  /\ \E t \in Range(rfid_tags_) : PassesBothGates(t)
  /\ nReports = 0 /\ published = NoMessage

\* C12: a Detection Cycle, skipped or publishing, leaves the cached tag
\* set, the cached pose, the readiness flag and the configuration unchanged.
C12_CycleIsPureReader ==
  [][ last' = "updateSensorCallback" =>
        /\ rfid_tags_' = rfid_tags_
        /\ _sensorTransform' = _sensorTransform
        /\ _gotTransform' = _gotTransform
        /\ _description' = _description ]_vars

C12_Witness ==
  /\ CyclePublished
  /\ nReports = MaxReports
  /\ Len(rfid_tags_) = 2
  /\ Len(published.rfid_tags) = 1

\* the tags of a vector that pass both gates as seen from a given pose
GatedBy(tags, pose) ==
  LET InRange(t) == (t.x - pose.x) * (t.x - pose.x)
                    + (t.y - pose.y) * (t.y - pose.y) <= SqRange
      InCone(t)  == angCheck(atan2(t.y - pose.y, t.x - pose.x),
                             pose.th - _description.angleSpan \div 2,
                             pose.th + _description.angleSpan \div 2)
  IN  SelectSeq(tags, LAMBDA t : InRange(t) /\ InCone(t))

\* C13: a report is computed from the pose returned by the last lookup
\* that succeeded and from the vector of the last registry update, whatever
\* failed refreshes came in between; the caches hold exactly these values.
C13_MostRecentUpdate ==
  /\ _gotTransform => _sensorTransform = h_pose
  /\ rfid_tags_ = h_tags
  /\ CyclePublished => published.rfid_tags = GatedBy(h_tags, h_pose)

C13_Witness ==
  /\ CyclePublished
  /\ tf_result.threw
  /\ h_pose.x = 10
  /\ replaced # {}
  /\ published.rfid_tags # <<>>

\* C14: a pose refresh can always be attempted again, and once a lookup
\* has succeeded with a map of nonzero extent the readiness flag is true
\* and a report is eventually published.
C14_RetryLiveness ==
  /\ [](ENABLED (\E res \in TfResults : updateTransform(res)))
  /\ (last = "updateTransform" /\ ~tf_result.threw
        /\ _map.height # 0 /\ _map.width # 0)
       ~> (_gotTransform /\ nReports > 0)

C14_Witness ==
  /\ CyclePublished
  /\ ~tf_result.threw
  /\ nReports = 1 /\ h_cycles = 1

\* s is t with some entries left out, the others in their order
RECURSIVE IsSubsequence(_, _)
IsSubsequence(s, t) ==
  IF s = <<>> THEN TRUE
  ELSE IF t = <<>> THEN FALSE
  ELSE IF Head(s) = Head(t)
    THEN IsSubsequence(Tail(s), Tail(t)) \/ IsSubsequence(s, Tail(t))
    ELSE IsSubsequence(s, Tail(t))

\* C15: the tag list of a report is an order-preserving subsequence of the
\* cached vector: registry order, entries unmodified, each occurrence of an
\* entry reported at most once.
C15_ReportIsSubsequence ==
  CyclePublished =>
    /\ IsSubsequence(published.rfid_tags, rfid_tags_)
    /\ \A t \in TagPool :
         Len(SelectSeq(published.rfid_tags, LAMBDA u : u = t))
           <= Len(SelectSeq(rfid_tags_, LAMBDA u : u = t))

C15_Witness ==
  /\ CyclePublished
  /\ Len(rfid_tags_) = 3
  /\ Len(published.rfid_tags) = 2
  /\ published.rfid_tags[1] = rfid_tags_[1]
  /\ published.rfid_tags[2] = rfid_tags_[3]

\* C16: the number of published reports equals the number of cycles invoked
\* with the readiness flag true and a map of nonzero width and height; each
\* such cycle publishes one report, with an empty list when nothing is
\* detected, and a cycle that fails a gate publishes none.
C16_OneReportPerCycle ==
  /\ nReports = h_cycles
  /\ (last = "updateSensorCallback" /\ ~CyclePublished) =>
        (nReports = 0 /\ published = NoMessage)
  /\ CyclePublished =>
        (nReports >= 1 /\ published.frame_id = _description.frame_id)

C16_Witness ==
  /\ CyclePublished
  /\ rfid_tags_ = <<>>
  /\ published.rfid_tags = <<>>
  /\ nReports = 2 /\ h_cycles = 2

\* C17: once the readiness flag is true no step makes it false again, so
\* from then on a cycle publishes exactly when the map has nonzero extent.
C17_ReadinessIsMonotone ==
  [][ _gotTransform =>
        /\ _gotTransform'
        /\ (last' = "updateSensorCallback" /\ _map.height # 0 /\ _map.width # 0)
              => nReports' = nReports + 1 ]_vars

C17_Witness ==
  /\ _gotTransform
  /\ last = "receiveRfids"
  /\ tf_result.threw
  /\ nReports = 1

\* the cached tags the two gates pass when the configured span is s
DetectedWithSpan(s) ==
  {t \in Range(rfid_tags_) :
     /\ SqDist(t) <= SqRange
     /\ angCheck(Bearing(t), _sensorTransform.th - s \div 2,
                             _sensorTransform.th + s \div 2)}

\* the spans below a full turn that are not narrower than the configured one
WiderSpans ==
  {s \in _description.angleSpan .. (TwoPI - 1) : s % 2 = 0}

\* C18: for a fixed pose, range and tag set, every tag reported with the
\* configured span is reported with every wider span below a full turn,
\* and with span 0 no tag is reported.
C18_SpanMonotone ==
  CyclePublished =>
    /\ \A s \in WiderSpans : Reported \subseteq DetectedWithSpan(s)
    /\ _description.angleSpan = 0 => Reported = {}

====
